---- MODULE Spec2Model ----
(***************************************************************************)
(* A model of the LLM orchestration layer of zep_custom (package llms and  *)
(* the summarizer of package extractors):                                  *)
(*   - the retrying HTTP client built by NewRetryableHTTPClient and its    *)
(*     CheckRetry function retryPolicy                     (SpecRetry),    *)
(*   - NewLLMClient / handleOpenAIClient / NewOpenAILLM    (SpecLLM),      *)
(*   - NewEmbeddingsClient                                 (SpecEmb),      *)
(*   - EmbedTexts / GetEmbeddingModel                      (SpecEmbed),    *)
(*   - summarize                                           (SpecSumm).     *)
(* Each specification moves its own group of variables and pins the other  *)
(* groups to their idle value.                                             *)
(***************************************************************************)
EXTENDS Integers, Sequences, FiniteSets

VARIABLES
    \* ---- retrying HTTP client: one Do() of one request ----
    rpc,              \* "off" | "idle" | "attempt" | "backoff" | "done"
    ctxErr,           \* ctx.Err() != nil  (cancelled or past its deadline)
    ctxAtCall,        \* ctx.Err() != nil held when Do was entered
    retryMax,         \* retryablehttp.Client.RetryMax
    i,                \* loop index of Do
    attempts,         \* calls of the wrapped HTTPClient.Do (requests handed out)
    resp,             \* status code of the last response, 0 = nil response
    doErr,            \* error of the last attempt
    outcome,          \* what Do returned
    sentAfterCancel   \* attempts handed out while ctx.Err() != nil

VARIABLES
    \* ---- client construction ----
    cfg,              \* the process configuration (config.Config)
    env,              \* how the libraries behind NewOpenAILLM behave
    call,             \* "none" | "llm" | "embeddings": the constructor called
    res               \* what the constructor returned

VARIABLES
    \* ---- embedding router ----
    appState,         \* models.AppState: the embeddings client and the config
    docType,          \* the documentType of the request
    model,            \* what GetEmbeddingModel returned
    embRes            \* what EmbedTexts did

VARIABLES
    \* ---- summarizer ----
    windowSize,       \* the configured message window
    messages,         \* IDs of the conversation's messages, oldest first
    summary,          \* the last persisted Summary, NoSummary when none
    lastCall          \* the last summarize call: its arguments and its return

retryVars == <<rpc, ctxErr, ctxAtCall, retryMax, i, attempts, resp, doErr,
               outcome, sentAfterCancel>>
factoryVars == <<cfg, env, call, res>>

embedVars == <<appState, docType, model, embRes>>
summVars == <<windowSize, messages, summary, lastCall>>

vars == <<retryVars, factoryVars, embedVars, summVars>>

(***************************************************************************)
(*                      The retrying HTTP client                           *)
(***************************************************************************)

\* const MaxOpenAIAPIRequestAttempts = 5, handed to NewRetryableHTTPClient
\* as retryMax by configureClient.
MaxOpenAIAPIRequestAttempts == 5

\* The status code retryPolicy singles out.
StatusBadRequest == 400

\* Status codes an attempt may answer with; 0 stands for a nil response.
Statuses == {0, 200, StatusBadRequest, 429, 500, 501}

\* Errors an attempt may end with: none, a transient network error, or one
\* of the errors the default policy never retries (too many redirects,
\* unsupported scheme, untrusted certificate).
DoErrs == {"none", "network", "permanent"}

\* retryablehttp.DefaultRetryPolicy, as called at the end of retryPolicy.
DefaultRetryPolicy(ctxE, st, e) ==
    IF ctxE THEN FALSE
    ELSE IF e # "none" THEN e = "network"
    ELSE st = 429 \/ st = 0 \/ (st >= 500 /\ st # 501)

\* retryPolicy without its exception for status 400.
retryPolicy_no400(ctxE, st, e) ==
    IF ctxE
    THEN [retry |-> FALSE, err |-> "ctx"]
    ELSE [retry |-> DefaultRetryPolicy(ctxE, st, e), err |-> "none"]

\* retryPolicy without its look at ctx.Err().
retryPolicy_noCtx(ctxE, st, e) ==
    IF st # 0 /\ st = StatusBadRequest
    THEN [retry |-> FALSE, err |-> e]
    ELSE [retry |-> DefaultRetryPolicy(ctxE, st, e), err |-> "none"]

\* retryPolicy(ctx, resp, err) (bool, error)
retryPolicy(ctxE, st, e) ==
    IF ctxE
    THEN [retry |-> FALSE, err |-> "ctx"]
    ELSE IF st # 0 /\ st = StatusBadRequest
    THEN [retry |-> FALSE, err |-> e]
    ELSE [retry |-> DefaultRetryPolicy(ctxE, st, e), err |-> "none"]

\* NewRetryableHTTPClient(retryMax, timeout): RetryMax = retryMax,
\* CheckRetry = retryPolicy.
NewRetryableHTTPClient(rm) == [RetryMax |-> rm]

\* What Do returns once the loop is left after an attempt: the response
\* when nothing failed and no retry was asked for, else the policy's error,
\* else the attempt's error, else "giving up after n attempt(s)".
DoResult(shouldRetry, checkErr, e) ==
    IF e = "none" /\ checkErr = "none" /\ ~shouldRetry THEN "response"
    ELSE IF checkErr = "ctx" THEN "ctx_error"
    ELSE IF checkErr # "none" \/ e # "none" THEN "error"
    ELSE "giveup"

RetryOff ==
    /\ rpc = "off" /\ ctxErr = FALSE /\ ctxAtCall = FALSE /\ retryMax = 0
    /\ i = 0 /\ attempts = 0 /\ resp = 0 /\ doErr = "none"
    /\ outcome = "none" /\ sentAfterCancel = 0

FactoryOff ==
    /\ cfg = <<>> /\ env = "ok" /\ call = "none" /\ res = <<>>

EmbedOff ==
    /\ appState = <<>> /\ docType = "" /\ model = <<>> /\ embRes = <<>>

SummOff ==
    /\ windowSize = 0 /\ messages = <<>> /\ summary = <<>> /\ lastCall = <<>>

\* configureClient builds the client; the caller's context may already be
\* cancelled before the first request is made.
InitRetry ==
    /\ FactoryOff /\ EmbedOff /\ SummOff
    /\ rpc = "idle"
    /\ ctxErr \in BOOLEAN
    /\ ctxAtCall = FALSE
    /\ retryMax = NewRetryableHTTPClient(MaxOpenAIAPIRequestAttempts).RetryMax
    /\ i = 0 /\ attempts = 0 /\ resp = 0 /\ doErr = "none"
    /\ outcome = "none" /\ sentAfterCancel = 0

\* Do is entered: the loop starts with i = 0 and hands the request to the
\* wrapped HTTP client.  CheckRetry is consulted only after the attempt.
Send ==
    /\ rpc = "idle"
    /\ rpc' = "attempt"
    /\ ctxAtCall' = ctxErr
    /\ i' = 0
    /\ attempts' = 1
    /\ sentAfterCancel' = IF ctxErr THEN 1 ELSE 0
    /\ UNCHANGED <<ctxErr, retryMax, resp, doErr, outcome,
                   factoryVars, embedVars, summVars>>

\* The caller cancels the context, or the deadline set by
\* context.WithTimeout(ctx, OpenAIAPITimeout) passes.
Cancel ==
    /\ rpc \in {"attempt", "backoff"}
    /\ ~ctxErr
    /\ ctxErr' = TRUE
    /\ UNCHANGED <<rpc, ctxAtCall, retryMax, i, attempts, resp, doErr,
                   outcome, sentAfterCancel,
                   factoryVars, embedVars, summVars>>

\* The attempt returns (resp, doErr); CheckRetry = retryPolicy decides; with
\* a retry asked for, remain := RetryMax - i decides between backing off
\* and giving up.
Respond(st, e) ==
    /\ rpc = "attempt"
    /\ (st = 0 => e # "none")
    /\ resp' = st
    /\ doErr' = e
    /\ LET chk == retryPolicy(ctxErr, st, e)
       IN  IF chk.retry /\ retryMax - i > 0
           THEN /\ rpc' = "backoff"
                /\ outcome' = outcome
           ELSE /\ rpc' = "done"
                /\ outcome' = DoResult(chk.retry, chk.err, e)
    /\ UNCHANGED <<ctxErr, ctxAtCall, retryMax, i, attempts, sentAfterCancel,
                   factoryVars, embedVars, summVars>>

\* select { case <-timer.C: } : the backoff is over, the loop goes round.
\* The select picks any ready case, so this branch may be taken even when
\* the context is done as well.
BackoffExpired ==
    /\ rpc = "backoff"
    /\ rpc' = "attempt"
    /\ i' = i + 1
    /\ attempts' = attempts + 1
    /\ sentAfterCancel' = sentAfterCancel + (IF ctxErr THEN 1 ELSE 0)
    /\ UNCHANGED <<ctxErr, ctxAtCall, retryMax, resp, doErr, outcome,
                   factoryVars, embedVars, summVars>>

\* select { case <-req.Context().Done(): return nil, ctx.Err() }
BackoffCancelled ==
    /\ rpc = "backoff"
    /\ ctxErr
    /\ rpc' = "done"
    /\ outcome' = "ctx_error"
    /\ UNCHANGED <<ctxErr, ctxAtCall, retryMax, i, attempts, resp, doErr,
                   sentAfterCancel,
                   factoryVars, embedVars, summVars>>

NextRetry ==
    \/ Send
    \/ Cancel
    \/ \E st \in Statuses, e \in DoErrs : Respond(st, e)
    \/ BackoffExpired
    \/ BackoffCancelled

SpecRetry == InitRetry /\ [][NextRetry]_vars

(***************************************************************************)
(*                         Client construction                             *)
(***************************************************************************)

ValidOpenAILLMs == {"gpt-3.5-turbo", "gpt-4", "gpt-3.5-turbo-16k", "gpt-4-32k"}

ValidOpenSourceLLMs ==
    {"meta-llama/Llama-2-7b-chat-hf", "meta-llama/Llama-2-13b-chat-hf",
     "meta-llama/Llama-2-70b-chat-hf"}

ValidAnthropicLLMs == {"claude-instant-1", "claude-2"}

\* Model names the configurations are drawn from: one of each registry and
\* one that is in none.
ModelNames ==
    {"gpt-4", "claude-2", "meta-llama/Llama-2-7b-chat-hf", "mystery-model"}

\* Values of an optional string setting: unset, or set.
Endpoints == {"", "https://endpoint"}
Keys == {"", "sk-key"}
LLMDeployments == {"", "my-deployment"}
EmbeddingDeployments == {"", "my-embeddings"}

\* The libraries NewOpenAILLM relies on: all fine, tiktoken.GetEncoding
\* fails, or openai.NewChat fails.
Envs == {"ok", "tkm_err", "chat_err"}

\* A returned error, a returned client, or log.Fatal (the process exits).
Err(why) == [out |-> "error", why |-> why, api |-> "none"]
Fatal(why) == [out |-> "fatal", why |-> why, api |-> "none"]
Client(api) == [out |-> "client", why |-> "", api |-> api]

\* useOpenAIEmbeddings(cfg): an expressionless switch takes the first case
\* whose condition holds.
useOpenAIEmbeddings(c) ==
    IF c.Msg.Enabled THEN c.Msg.Service = "openai"
    ELSE IF c.Doc.Enabled THEN c.Doc.Service = "openai"
    ELSE FALSE

\* configureClient without its check that only one endpoint is set.
configureClient_noEndpointCheck(l) ==
    IF l.OpenAIAPIKey = "" THEN Fatal("api_key_not_set")
    ELSE IF l.AzureOpenAIEndpoint # "" THEN Client("azure")
    ELSE IF l.OpenAIEndpoint # "" THEN Client("custom")
    ELSE Client("default")

\* ZepOpenAILLM.configureClient(llmConfig): log.Fatal on a missing key and
\* on both endpoints set; else the options of the client.
configureClient(l) ==
    IF l.OpenAIAPIKey = "" THEN Fatal("api_key_not_set")
    ELSE IF l.AzureOpenAIEndpoint # "" /\ l.OpenAIEndpoint # ""
    THEN Fatal("only_one_endpoint")
    ELSE IF l.AzureOpenAIEndpoint # "" THEN Client("azure")
    ELSE IF l.OpenAIEndpoint # "" THEN Client("custom")
    ELSE Client("default")

\* ZepOpenAILLM.Init: tokenizer, configureClient, openai.NewChat.
InitOpenAILLM(l, e) ==
    IF e = "tkm_err" THEN Err("library")
    ELSE LET options == configureClient(l)
         IN  IF options.out = "fatal" THEN options
             ELSE IF e = "chat_err" THEN Err("library")
             ELSE options

\* NewOpenAILLM(ctx, llmConfig)
NewOpenAILLM(l, e) == InitOpenAILLM(l, e)

\* NewAnthropicLLM(ctx, cfg): builds a client unless its libraries fail.
NewAnthropicLLM(c, e) ==
    IF e = "ok" THEN Client("anthropic") ELSE Err("library")

\* The validation accepting open-source models whatever the endpoint.
isValidModel_anyEndpoint(c, l, clientType) ==
    LET isValidOpenAILLM == l.Model \in ValidOpenAILLMs
        isValidLLM == isValidOpenAILLM \/ l.Model \in ValidOpenSourceLLMs
    IN  IF clientType = "embeddings" /\ ~isValidOpenAILLM THEN FALSE
        ELSE isValidLLM

\* The validation without its rule for the embeddings client.
isValidModel_noEmbeddingsRule(c, l, clientType) ==
    LET isUsingCustomLLMEndpoint == c.LLM.OpenAIEndpoint # "" /\ c.EmbEnabled
    IN  \/ l.Model \in ValidOpenAILLMs
        \/ isUsingCustomLLMEndpoint /\ l.Model \in ValidOpenSourceLLMs

\* The validation of handleOpenAIClient off the Azure path: does the model
\* of llmConfig pass?
isValidModel(c, l, clientType) ==
    LET isUsingCustomLLMEndpoint == c.LLM.OpenAIEndpoint # "" /\ c.EmbEnabled
        isValidOpenAILLM == l.Model \in ValidOpenAILLMs
        isValidOpenSourceLLM ==
            isUsingCustomLLMEndpoint /\ l.Model \in ValidOpenSourceLLMs
        isValidLLM == isValidOpenAILLM \/ isValidOpenSourceLLM
    IN  IF clientType = "embeddings" /\ ~isValidOpenAILLM THEN FALSE
        ELSE IF ~isValidLLM THEN FALSE
        ELSE TRUE

\* handleOpenAIClient(ctx, llmConfig, clientType).  llmConfig points into
\* the configuration: which = "LLM" for cfg.LLM, "EmbClient" for
\* cfg.OpenAIEmbeddings.Client; writing llmConfig.Model writes there.
handleOpenAIClient(c, which, clientType, e) ==
    IF c[which].AzureOpenAIEndpoint # ""
    THEN LET c1 == IF c[which].LLMDeployment # ""
                   THEN [c EXCEPT ![which].Model = c[which].LLMDeployment]
                   ELSE c
         IN  IF c1.LLM.OpenAIEndpoint # ""
             THEN [cfg |-> c1, res |-> NewOpenAILLM(c1.LLM, e)]
             ELSE IF c1.LLM.Model \notin ValidOpenAILLMs
             THEN [cfg |-> c1, res |-> Err("invalid_llm_deployment")]
             ELSE IF c1[which].EmbeddingDeployment = ""
                     /\ useOpenAIEmbeddings(c1)
             THEN [cfg |-> c1, res |-> Err("invalid_embeddings_deployment")]
             ELSE [cfg |-> c1, res |-> NewOpenAILLM(c1[which], e)]
    ELSE IF ~isValidModel(c, c[which], clientType)
         THEN [cfg |-> c, res |-> Err("invalid_llm_model")]
         ELSE [cfg |-> c, res |-> NewOpenAILLM(c[which], e)]

\* NewLLMClient(ctx, cfg)
NewLLMClient(c, e) ==
    CASE c.LLM.Service = "openai" -> handleOpenAIClient(c, "LLM", "llm", e)
      [] c.LLM.Service = "anthropic" ->
            IF c.LLM.Model \notin ValidAnthropicLLMs
            THEN [cfg |-> c, res |-> Err("invalid_llm_model")]
            ELSE [cfg |-> c, res |-> NewAnthropicLLM(c, e)]
      [] c.LLM.Service = "" -> [cfg |-> c, res |-> NewOpenAILLM(c.LLM, e)]
      [] OTHER -> [cfg |-> c, res |-> Err("invalid_service")]

\* NewEmbeddingsClient(ctx, cfg)
NewEmbeddingsClient(c, e) ==
    CASE c.EmbClient.Service = "openai" ->
            handleOpenAIClient(c, "EmbClient", "embeddings", e)
      [] c.EmbClient.Service = "" ->
            [cfg |-> c, res |-> NewOpenAILLM(c.EmbClient, e)]
      [] OTHER -> [cfg |-> c, res |-> Err("invalid_service")]

\* config.LLM values.
LLMConfigs(services, models, keys, endpoints, azures, deps, embdeps) ==
    [Service : services, Model : models, OpenAIAPIKey : keys,
     OpenAIEndpoint : endpoints, AzureOpenAIEndpoint : azures,
     LLMDeployment : deps, EmbeddingDeployment : embdeps]

\* Embeddings settings of one extractor.
ExtractorEmbeddings == [Enabled : BOOLEAN, Service : {"openai", "local"}]

\* A plain OpenAI configuration.
DefaultLLM ==
    [Service |-> "openai", Model |-> "gpt-4", OpenAIAPIKey |-> "sk-key",
     OpenAIEndpoint |-> "", AzureOpenAIEndpoint |-> "",
     LLMDeployment |-> "", EmbeddingDeployment |-> ""]

\* Configurations for NewLLMClient: every cfg.LLM, every extractor setting;
\* cfg.OpenAIEmbeddings.Client, which NewLLMClient never reads, is plain.
InitLLM ==
    /\ RetryOff /\ EmbedOff /\ SummOff
    /\ cfg \in [LLM : LLMConfigs({"openai", "anthropic", "", "cohere"},
                                 ModelNames, Keys, Endpoints, Endpoints,
                                 LLMDeployments, EmbeddingDeployments),
                EmbEnabled : BOOLEAN,
                EmbClient : {DefaultLLM},
                Msg : ExtractorEmbeddings,
                Doc : ExtractorEmbeddings]
    /\ env \in Envs
    /\ call = "none"
    /\ res = <<>>

\* Configurations for NewEmbeddingsClient: every cfg.OpenAIEmbeddings.Client;
\* of cfg.LLM the fields handleOpenAIClient and NewOpenAILLM read.
InitEmb ==
    /\ RetryOff /\ EmbedOff /\ SummOff
    /\ cfg \in [LLM : LLMConfigs({"openai"}, {"gpt-4", "mystery-model"}, Keys,
                                 Endpoints, Endpoints, {""}, {""}),
                EmbEnabled : BOOLEAN,
                EmbClient : LLMConfigs({"openai", "", "anthropic"},
                                       ModelNames \ {"claude-2"}, Keys,
                                       Endpoints, Endpoints, LLMDeployments,
                                       EmbeddingDeployments),
                Msg : ExtractorEmbeddings,
                Doc : {[Enabled |-> FALSE, Service |-> "local"],
                       [Enabled |-> TRUE, Service |-> "openai"]}]
    /\ env \in Envs
    /\ call = "none"
    /\ res = <<>>

\* The process asks for its completion client.
NewLLMClientCall ==
    /\ call = "none"
    /\ LET r == NewLLMClient(cfg, env)
       IN  cfg' = r.cfg /\ res' = r.res
    /\ call' = "llm"
    /\ UNCHANGED <<env, retryVars, embedVars, summVars>>

\* The process asks for its embeddings client.
NewEmbeddingsClientCall ==
    /\ call = "none"
    /\ LET r == NewEmbeddingsClient(cfg, env)
       IN  cfg' = r.cfg /\ res' = r.res
    /\ call' = "embeddings"
    /\ UNCHANGED <<env, retryVars, embedVars, summVars>>

SpecLLM == InitLLM /\ [][NewLLMClientCall]_vars

SpecEmb == InitEmb /\ [][NewEmbeddingsClientCall]_vars

(***************************************************************************)
(*                          Embedding router                               *)
(***************************************************************************)

\* Most texts one request carries.
MaxTexts == 2

DocumentTypes == {"message", "document", "image"}

\* Embeddings settings of one extractor, as GetEmbeddingModel reads them.
EmbeddingSettings == [Service : {"openai", "local"}, Dimensions : {384, 1536}]

\* GetEmbeddingModel(appState, documentType)
GetEmbeddingModel(a, dt) ==
    CASE dt = "message" ->
            [err |-> "", Service |-> a.Msg.Service,
             Dimensions |-> a.Msg.Dimensions]
      [] dt = "document" ->
            [err |-> "", Service |-> a.Doc.Service,
             Dimensions |-> a.Doc.Dimensions]
      [] OTHER ->
            [err |-> "invalid document type", Service |-> "", Dimensions |-> 0]

\* ZepOpenAILLM.EmbedTexts on the resolved client: CreateEmbedding goes to
\* the provider and may fail.
ClientEmbedTexts(remoteOK) ==
    IF remoteOK THEN [dispatch |-> "remote", err |-> ""]
    ELSE [dispatch |-> "remote", err |-> "error while creating embedding"]

\* EmbedTexts(ctx, appState, model, documentType, text); n = len(text).
EmbedTexts(a, m, dt, n, remoteOK) ==
    IF n = 0 THEN [dispatch |-> "none", err |-> "no text to embed"]
    ELSE IF a.EmbeddingsClient = "nil"
    THEN [dispatch |-> "none", err |-> "llm model is not set or is invalid"]
    ELSE IF m.Service = "local" THEN [dispatch |-> "local", err |-> ""]
    ELSE ClientEmbedTexts(remoteOK)

\* The application state after start-up: the embeddings client is the one
\* NewEmbeddingsClient returned, nil when it returned none.
InitEmbed ==
    /\ RetryOff /\ FactoryOff /\ SummOff
    /\ appState \in [EmbeddingsClient : {"nil", "client"},
                     Msg : EmbeddingSettings, Doc : EmbeddingSettings]
    /\ docType = ""
    /\ model = <<>>
    /\ embRes = <<>>

\* A request for the embedding model of a document type.
GetEmbeddingModelCall(dt) ==
    /\ model = <<>>
    /\ docType' = dt
    /\ model' = GetEmbeddingModel(appState, dt)
    /\ UNCHANGED <<appState, embRes, retryVars, factoryVars, summVars>>

\* The texts of the request are embedded with the model just resolved.
EmbedTextsCall(n, remoteOK) ==
    /\ model # <<>>
    /\ model.err = ""
    /\ embRes = <<>>
    /\ LET r == EmbedTexts(appState, model, docType, n, remoteOK)
       IN  embRes' = [n |-> n, dispatch |-> r.dispatch, err |-> r.err]
    /\ UNCHANGED <<appState, docType, model, retryVars, factoryVars, summVars>>

NextEmbed ==
    \/ \E dt \in DocumentTypes : GetEmbeddingModelCall(dt)
    \/ \E n \in 0..MaxTexts, remoteOK \in BOOLEAN : EmbedTextsCall(n, remoteOK)

SpecEmbed == InitEmbed /\ [][NextEmbed]_vars

(***************************************************************************)
(*                             Summarizer                                  *)
(***************************************************************************)

\* Most messages of one conversation, largest window, largest
\* minPendingCount.
MaxMessages == 6
MaxWindowSize == 4
MaxPendingCount == 3

NoSummary == [SummaryPointID |-> <<>>]

\* The ID of the k-th message of the conversation.
MessageID(k) == <<"msg", k>>

Max(a, b) == IF a >= b THEN a ELSE b

\* The 0-based index of the message with this ID in msgs, -1 when absent.
IndexOfID(msgs, id) ==
    IF \E k \in 1..Len(msgs) : msgs[k] = id
    THEN (CHOOSE k \in 1..Len(msgs) : msgs[k] = id) - 1
    ELSE -1

\* cutIndex keeping a whole window of messages pending.
cutIndex_wholeWindow(ws, n, minPendingCount) ==
    n - Max(minPendingCount, ws) - 1

\* cutIndex of summarize (0-based): the newest message to fold.
cutIndex(ws, n, minPendingCount) == n - Max(minPendingCount, ws \div 2) - 1

\* summarize(windowSize, messages, priorSummary, minPendingCount); msgs is
\* ordered oldest to newest, completeOK tells whether the completion call
\* succeeds.
summarize(ws, msgs, prior, minPendingCount, completeOK) ==
    LET cut == cutIndex(ws, Len(msgs), minPendingCount)
        priorIndex == IndexOfID(msgs, prior.SummaryPointID)
    IN  IF cut < 0 \/ cut <= priorIndex
        THEN [err |-> "", noop |-> TRUE, summary |-> prior]
        ELSE IF ~completeOK
        THEN [err |-> "completion failed", noop |-> FALSE, summary |-> prior]
        ELSE [err |-> "", noop |-> FALSE,
              summary |-> [SummaryPointID |-> msgs[cut + 1]]]

InitSumm ==
    /\ RetryOff /\ FactoryOff /\ EmbedOff
    /\ windowSize \in 1..MaxWindowSize
    /\ messages = <<>>
    /\ summary = NoSummary
    /\ lastCall = <<>>

\* The memory store appends a message to the conversation.
AppendMessage ==
    /\ Len(messages) < MaxMessages
    /\ messages' = Append(messages, MessageID(Len(messages) + 1))
    /\ UNCHANGED <<windowSize, summary, lastCall, retryVars, factoryVars,
                   embedVars>>

\* The store hands summarize the newest messages from position first on and
\* the persisted summary, and persists what summarize returns.
Summarize(first, minPendingCount, completeOK) ==
    /\ first \in 1..Len(messages)
    /\ LET msgs == SubSeq(messages, first, Len(messages))
           r == summarize(windowSize, msgs, summary, minPendingCount,
                          completeOK)
       IN  /\ lastCall' = [msgs |-> msgs, prior |-> summary,
                           minPendingCount |-> minPendingCount,
                           err |-> r.err, noop |-> r.noop,
                           summary |-> r.summary]
           /\ summary' = r.summary
    /\ UNCHANGED <<windowSize, messages, retryVars, factoryVars, embedVars>>

NextSumm ==
    \/ AppendMessage
    \/ \E first \in 1..MaxMessages, mp \in 0..MaxPendingCount,
          completeOK \in BOOLEAN : Summarize(first, mp, completeOK)

SpecSumm == InitSumm /\ [][NextSumm]_vars

(***************************************************************************)
(*                        The retrying HTTP client                         *)
(***************************************************************************)

\* C1: when an attempt comes back with status 400, whatever error comes
\* with it and whatever is left of the budget, Do ends there with what the
\* attempt gave; and once Do has returned, no further attempt is made.
C1_BadRequestNotRetried ==
    [][/\ (rpc = "attempt" /\ rpc' # "attempt" /\ resp' = StatusBadRequest)
          => /\ rpc' = "done"
             /\ attempts' = attempts
             /\ outcome' \in {"response", "error", "ctx_error"}
       /\ rpc = "done" => attempts' = attempts]_vars

\* A 400 that came with a network error, after one retry, with budget left
\* and the context alive: Do has returned the error.
C1_Witness ==
    /\ rpc = "done" /\ resp = StatusBadRequest /\ doErr = "network"
    /\ attempts = 2 /\ i < retryMax /\ ~ctxErr /\ outcome = "error"

C3_RequestsWithinMaxAttempts == attempts <= retryMax

(***************************************************************************)
(*                           Client construction                           *)
(***************************************************************************)

\* The errors that name a configuration fault.
ConfigErrors ==
    {"invalid_llm_model", "invalid_llm_deployment",
     "invalid_embeddings_deployment", "invalid_service"}

IsConfigError(r) == r.out = "error" /\ r.why \in ConfigErrors

\* The known-model set of a service; an unset service is OpenAI's.
KnownModels(service) ==
    IF service = "anthropic" THEN ValidAnthropicLLMs ELSE ValidOpenAILLMs

NoEndpoint(l) == l.OpenAIEndpoint = "" /\ l.AzureOpenAIEndpoint = ""
BothEndpoints(l) == l.OpenAIEndpoint # "" /\ l.AzureOpenAIEndpoint # ""

\* C4 as stated: for service openai, anthropic or unset, a model outside
\* the service's known-model set with no endpoint configured makes
\* NewLLMClient return a configuration error and no client (taken with
\* the key set and the libraries working, where nothing else can fail).
C4_UnknownModelRejected ==
    (/\ call = "llm"
     /\ cfg.LLM.Service \in {"openai", "anthropic", ""}
     /\ cfg.LLM.Model \notin KnownModels(cfg.LLM.Service)
     /\ NoEndpoint(cfg.LLM)
     /\ cfg.LLM.OpenAIAPIKey # "" /\ env = "ok")
    => IsConfigError(res)

\* C4 as amended: that holds for service openai and anthropic; with the
\* service unset the model is not validated, and NewOpenAILLM builds the
\* client whenever the key is set and its libraries work.
C4_UnknownModelRejectedForNamedService ==
    (/\ call = "llm"
     /\ cfg.LLM.Model \notin KnownModels(cfg.LLM.Service)
     /\ NoEndpoint(cfg.LLM))
    => /\ cfg.LLM.Service \in {"openai", "anthropic"}
          => res = Err("invalid_llm_model")
       /\ (cfg.LLM.Service = "" /\ cfg.LLM.OpenAIAPIKey # "" /\ env = "ok")
          => res = Client("default")

\* Service openai, no endpoint, an open-source model, embeddings enabled,
\* key set: the call returned the error.
C4_Witness ==
    /\ call = "llm" /\ cfg.LLM.Service = "openai"
    /\ cfg.LLM.Model \in ValidOpenSourceLLMs
    /\ NoEndpoint(cfg.LLM) /\ cfg.EmbEnabled /\ cfg.LLM.OpenAIAPIKey # ""
    /\ env = "ok" /\ res = Err("invalid_llm_model")

\* C5: with a custom endpoint and no Azure endpoint the model is not
\* validated: whatever the model and whether or not embeddings are enabled,
\* an OpenAI-compatible completion client is returned (the key being set
\* and the libraries working).
C5_CustomEndpointSkipsValidation ==
    (/\ call = "llm"
     /\ cfg.LLM.Service \in {"openai", ""}
     /\ cfg.LLM.OpenAIEndpoint # "" /\ cfg.LLM.AzureOpenAIEndpoint = ""
     /\ cfg.LLM.OpenAIAPIKey # "" /\ env = "ok")
    => res.out = "client"

\* C6 as stated: with no Azure endpoint on the embeddings client's
\* configuration, whatever the service, a client is returned only for a
\* model of the OpenAI set and every other model fails with a
\* configuration error (taken with the key set and the libraries working).
C6_EmbeddingsNeedOpenAIModel ==
    (/\ call = "embeddings" /\ cfg.EmbClient.AzureOpenAIEndpoint = ""
     /\ cfg.EmbClient.OpenAIAPIKey # "" /\ env = "ok")
    => /\ res.out = "client" => cfg.EmbClient.Model \in ValidOpenAILLMs
       /\ cfg.EmbClient.Model \notin ValidOpenAILLMs => IsConfigError(res)

\* C6 as amended: that holds for every service value but the unset one.
C6_EmbeddingsNeedOpenAIModelForNamedService ==
    (/\ call = "embeddings"
     /\ cfg.EmbClient.AzureOpenAIEndpoint = ""
     /\ cfg.EmbClient.Service # "")
    => /\ res.out = "client" => cfg.EmbClient.Model \in ValidOpenAILLMs
       /\ cfg.EmbClient.Model \notin ValidOpenAILLMs => IsConfigError(res)

\* Service openai, an open-source model behind a custom endpoint with
\* embeddings enabled, the key set: the embeddings client is refused.
C6_Witness ==
    /\ call = "embeddings" /\ cfg.EmbClient.Service = "openai"
    /\ cfg.EmbClient.AzureOpenAIEndpoint = ""
    /\ cfg.EmbClient.Model \in ValidOpenSourceLLMs
    /\ cfg.LLM.OpenAIEndpoint # "" /\ cfg.EmbEnabled
    /\ cfg.EmbClient.OpenAIAPIKey # "" /\ env = "ok"
    /\ res = Err("invalid_llm_model")

\* C7 as stated: with an Azure endpoint and a custom endpoint both set the
\* call returns a configuration error, whatever the model; the process is
\* not ended and no endpoint is picked (taken with the key set and the
\* libraries working).
C7_BothEndpointsIsConfigError ==
    (/\ call = "llm" /\ BothEndpoints(cfg.LLM)
     /\ cfg.LLM.OpenAIAPIKey # "" /\ env = "ok")
    => IsConfigError(res)

\* C7 as amended: on the completion path with service openai or unset and
\* both endpoints set, no client is returned and no configuration error:
\* configureClient ends the process with log.Fatal, unless the tokenizer
\* failed to load before it, which is returned as that error.
C7_BothEndpointsIsFatal ==
    (/\ call = "llm"
     /\ cfg.LLM.Service \in {"openai", ""}
     /\ BothEndpoints(cfg.LLM))
    => /\ res.out # "client"
       /\ ~IsConfigError(res)
       /\ env # "tkm_err" => res.out = "fatal"
       /\ env = "tkm_err" => res = Err("library")

\* Service openai, both endpoints and the key set, the libraries working:
\* the call ended in log.Fatal over the two endpoints.
C7_Witness ==
    /\ call = "llm" /\ cfg.LLM.Service = "openai" /\ BothEndpoints(cfg.LLM)
    /\ cfg.LLM.OpenAIAPIKey # "" /\ env = "ok"
    /\ res = Fatal("only_one_endpoint")

\* OpenAI embeddings are in use by an extractor.
OpenAIEmbeddingsInUse(c) ==
    \/ c.Msg.Enabled /\ c.Msg.Service = "openai"
    \/ c.Doc.Enabled /\ c.Doc.Service = "openai"

\* C10: on the Azure path (Azure endpoint set, no custom endpoint, valid
\* model, key set, libraries working) with no embedding deployment, the
\* call fails with a configuration error exactly when the message or the
\* document extractor uses OpenAI embeddings, and succeeds otherwise.
C10_AzureNeedsEmbeddingDeployment ==
    (/\ call = "llm" /\ cfg.LLM.Service = "openai"
     /\ cfg.LLM.AzureOpenAIEndpoint # "" /\ cfg.LLM.OpenAIEndpoint = ""
     /\ cfg.LLM.Model \in ValidOpenAILLMs
     /\ cfg.LLM.EmbeddingDeployment = ""
     /\ cfg.LLM.OpenAIAPIKey # "" /\ env = "ok")
    => IF OpenAIEmbeddingsInUse(cfg)
       THEN res = Err("invalid_embeddings_deployment")
       ELSE res.out = "client"

(***************************************************************************)
(*                            Embedding router                             *)
(***************************************************************************)

\* C8: EmbedTexts with texts to embed and model.Service = "local" goes to
\* the local embedder, whether or not an embeddings client was resolved.
C8_LocalAlwaysDispatchedLocally ==
    (embRes # <<>> /\ embRes.n > 0 /\ model.Service = "local")
    => embRes.dispatch = "local"

(***************************************************************************)
(*                               Summarizer                                *)
(***************************************************************************)

\* The messages newer than the summary point of the last call's return.
PendingAfter(c) ==
    Len(c.msgs) - (IndexOfID(c.msgs, c.summary.SummaryPointID) + 1)

\* C9 as stated: for a window of at least windowSize messages, the
\* returned summary's point is the message at index
\* len(messages) - windowSize/2 - 1, with or without a prior summary and
\* for every minPendingCount.
C9_CutAtHalfWindow ==
    (/\ lastCall # <<>> /\ lastCall.err = ""
     /\ Len(lastCall.msgs) >= windowSize)
    => lastCall.summary.SummaryPointID
          = lastCall.msgs[Len(lastCall.msgs) - (windowSize \div 2)]

\* C9 as amended: when summarize folds anything, the returned summary's
\* point leaves max(minPendingCount, windowSize/2) newer messages, which is
\* the message at index len(messages) - windowSize/2 - 1 when
\* minPendingCount <= windowSize/2, with or without a prior summary; when
\* it folds nothing, the prior summary is returned.
C9_CutAtMaxOfPendingAndHalfWindow ==
    (lastCall # <<>> /\ lastCall.err = "")
    => IF lastCall.noop
       THEN lastCall.summary = lastCall.prior
       ELSE /\ PendingAfter(lastCall)
                  = Max(lastCall.minPendingCount, windowSize \div 2)
            /\ lastCall.minPendingCount <= windowSize \div 2
               => lastCall.summary.SummaryPointID
                     = lastCall.msgs[Len(lastCall.msgs) - (windowSize \div 2)]

\* A call with a prior summary and 0 < minPendingCount <= windowSize/2
\* that folded messages.
C9_Witness ==
    /\ lastCall # <<>> /\ lastCall.err = "" /\ ~lastCall.noop
    /\ lastCall.prior # NoSummary
    /\ lastCall.minPendingCount > 0
    /\ lastCall.minPendingCount <= windowSize \div 2
    /\ Len(lastCall.msgs) >= windowSize

====
